---- MODULE Spec2Model ----
(***************************************************************************)
(* The repository + RPC procedure layer of the users/posts application:    *)
(* the two relational tables with their store-enforced constraints, the    *)
(* UserRepository / PostRepository methods (one store statement each) and  *)
(* the tRPC procedures that validate an input and delegate to them.        *)
(*                                                                         *)
(* Spec        : callers invoke the repository methods; two users, two     *)
(*               posts, all within one reading of the clock.               *)
(* RpcSpec     : the same through the router procedures only.              *)
(* TimeSpec    : repository methods while the clock advances; two users,   *)
(*               one post.                                                 *)
(* RpcTimeSpec : the same through the router procedures only.              *)
(* ReadSpec    : repository creates, deletes and reads while the clock     *)
(*               advances; two users, two posts.                           *)
(* IdSpec      : createUserId() / createPostId() drawing random bytes.     *)
(* UpdateSpec  : repository creates and updates and the users.update       *)
(*               procedure while the clock advances.                       *)
(* ConcSpec    : two concurrent UserRepository calls, each suspended at    *)
(*               its statement, the store executing them in any order.     *)
(* HookSpec    : the React Query hooks of the client: query hooks fill the *)
(*               cache, mutation hooks call a procedure and invalidate.    *)
(* ClientSpec  : one caller runs create and then findById of the created   *)
(*               id while other callers create, update and delete users.   *)
(***************************************************************************)
EXTENDS Integers, FiniteSets, Sequences, TLC

VARIABLES users, posts, clock, last, gen, client, calls, cache

vars == <<users, posts, clock, last, gen, client, calls, cache>>

\* What the calls of the repository and of the router leave alone.
aux == <<gen, client, calls, cache>>

(***************************************************************************)
(* Bounds of the model.                                                    *)
(***************************************************************************)
\* Last reading of the clock, in store ticks (microseconds in the program).
MaxClock == 2
\* Store ticks per tick of the JavaScript clock (1000 in the program).
TicksPerMs == 2

(***************************************************************************)
(* Values.                                                                 *)
(***************************************************************************)
\* JavaScript undefined, for a string-valued and for a Date-valued field.
undefined == "undefined"
noDate == -1

\* Values createUserId() / createPostId() can return.
UserIds == {"user_A", "user_B"}
PostIds == {"post_A", "post_B"}

Names == {"", "Ada"}
Emails == {"ada@example.com", "not-an-email"}
Titles == {"", "Hi"}
Contents == {"World"}
\* Dates a caller can put into createdAt / updatedAt.
CallerDates == {0}

TitleMax == 200

(***************************************************************************)
(* Clocks and the timestamp column.                                        *)
(***************************************************************************)
\* defaultNow(): the store's now(), read at the statement.
defaultNow(t) == t

\* new Date(): the same instant at the JavaScript clock's granularity.
newDate(t) == (t \div TicksPerMs) * TicksPerMs

\* A timestamp column read back into a JavaScript Date.
mapFromDriverValue(t) == (t \div TicksPerMs) * TicksPerMs

(***************************************************************************)
(* Identifiers (lib/nanoid.ts).  A string is the sequence of its           *)
(* characters.                                                             *)
(***************************************************************************)
alphabet ==
    <<"1", "2", "3", "4", "5", "6", "7", "8", "9",
      "A", "B", "C", "D", "E", "F", "G", "H", "J", "K", "M", "N", "P", "Q",
      "R", "S", "T", "U", "V", "W", "X", "Y", "Z",
      "a", "b", "c", "d", "e", "f", "g", "h", "i", "j", "k", "m", "n", "o",
      "p", "q", "r", "s", "t", "u", "v", "w", "x", "y", "z">>

\* customAlphabet(alphabet, 12)
size == 12

\* The random bytes the generator is given here: indices 0, 31 and 56 of the
\* alphabet (64 and 248 wrap onto 0 and 56) and two bytes that index past it.
Bytes == {0, 31, 56, 57, 64, 248, 255}

RECURSIVE PowerOfTwoAbove(_, _)
PowerOfTwoAbove(n, p) == IF p > n THEN p ELSE PowerOfTwoAbove(n, 2 * p)

\* The bitmask of customAlphabet: the least 2^k - 1 that covers every index.
mask == PowerOfTwoAbove(Len(alphabet) - 1, 2) - 1

\* byte & mask
BitAnd(byte, m) == byte % (m + 1)

Pick_noFallback(byte) ==
    LET i == BitAnd(byte, mask) IN
    IF i < Len(alphabet) THEN <<alphabet[i + 1]>> ELSE <<"undefined">>

\* alphabet[byte & mask] || ''
Pick(byte) ==
    LET i == BitAnd(byte, mask) IN
    IF i < Len(alphabet) THEN <<alphabet[i + 1]>> ELSE <<>>

UserPrefix == <<"u", "s", "e", "r", "_">>
PostPrefix == <<"p", "o", "s", "t", "_">>

\* No identifier is being generated.
NotGenerating == [fn |-> "none", id |-> <<>>, value |-> <<>>]

(***************************************************************************)
(* Table constraints (users.ts, posts.ts).  Each takes the rows the        *)
(* statement leaves in place and the row it writes.                        *)
(***************************************************************************)
users_pkey_dropped(others, row) == TRUE

\* users.id: primaryKey()
users_pkey(others, row) == \A o \in others : o.id # row.id

users_email_unique_dropped(others, row) == TRUE

\* users.email: unique()
users_email_unique(others, row) == \A o \in others : o.email # row.email

\* posts.id: primaryKey()
posts_pkey(others, row) == \A o \in others : o.id # row.id

posts_author_id_fk_dropped(usrs, row) == TRUE

\* posts.authorId: references(() => users.id), checked when a post is written
posts_author_id_fk(usrs, row) == \E u \in usrs : u.id = row.authorId

OnDeleteNoAction(psts, ids) == psts

\* posts.authorId: { onDelete: 'cascade' }
OnDeleteCascade(psts, ids) == {p \in psts : p.authorId \notin ids}

\* The error a call raises: none, the constraint a statement violated, or the
\* router's rejection of an input that fails its schema.
NoError == "none"
UsersPkey == "users_pkey"
UsersEmailUnique == "users_email_unique"
PostsPkey == "posts_pkey"
PostsAuthorFk == "posts_author_id_users_id_fk"
BadRequest == "BAD_REQUEST"

UniqueViolations == {UsersPkey, UsersEmailUnique, PostsPkey}
ForeignKeyViolations == {PostsAuthorFk}
ConstraintViolations == UniqueViolations \cup ForeignKeyViolations

\* The outcome of one repository call: the tables after it, the error it
\* raised and the rows it returned.
Outcome(e, us, ps, rs) == [err |-> e, users |-> us, posts |-> ps, result |-> rs]

\* result[0]: the first returned row, or undefined (the empty set).
First(rows) == IF rows = {} THEN {} ELSE {CHOOSE r \in rows : TRUE}

UserFromDriver(r) ==
    [r EXCEPT !.createdAt = mapFromDriverValue(@),
              !.updatedAt = mapFromDriverValue(@)]

PostFromDriver(r) ==
    [r EXCEPT !.createdAt = mapFromDriverValue(@),
              !.updatedAt = mapFromDriverValue(@)]

\* The orders in which a select without orderBy can return the rows.
AnyOrder(rows) ==
    {s \in [1..Cardinality(rows) -> rows] :
        \A i \in DOMAIN s, j \in DOMAIN s : i # j => s[i] # s[j]}

orderBy_asc_createdAt(rows) ==
    {s \in AnyOrder(rows) :
        \A i \in DOMAIN s, j \in DOMAIN s :
            i < j => s[i].createdAt <= s[j].createdAt}

\* orderBy(desc(createdAt)): the store sorts on the stored value; rows with
\* the same createdAt come in any order.
orderBy_desc_createdAt(rows) ==
    {s \in AnyOrder(rows) :
        \A i \in DOMAIN s, j \in DOMAIN s :
            i < j => s[i].createdAt >= s[j].createdAt}

\* The rows of a result, each read back through the driver.
UsersFromDriver(s) == [i \in DOMAIN s |-> UserFromDriver(s[i])]

PostsFromDriver(s) == [i \in DOMAIN s |-> PostFromDriver(s[i])]

(***************************************************************************)
(* UserRepository                                                          *)
(***************************************************************************)
\* The row an insert writes: id from $defaultFn, timestamps from defaultNow()
\* unless the values carry them.
NewUserRow(v, genId, t) ==
    [id        |-> IF v.id = undefined THEN genId ELSE v.id,
     name      |-> v.name,
     email     |-> v.email,
     createdAt |-> IF v.createdAt = noDate THEN defaultNow(t) ELSE v.createdAt,
     updatedAt |-> IF v.updatedAt = noDate THEN defaultNow(t) ELSE v.updatedAt]

UserRepository_findById_byEmail(us, id) ==
    First({UserFromDriver(r) : r \in {u \in us : u.email = id}})

UserRepository_findById_cached(us, id) ==
    First({UserFromDriver(r) : r \in {u \in us : u.id = id}} \cup client.row)

UserRepository_findById(us, id) ==
    First({UserFromDriver(r) : r \in {u \in us : u.id = id}})

UserRepository_findByEmail_noWhere(us, email) ==
    First({UserFromDriver(r) : r \in us})

UserRepository_findByEmail(us, email) ==
    First({UserFromDriver(r) : r \in {u \in us : u.email = email}})

UserRepository_create_onConflictDoNothing(us, ps, t, userData, genId) ==
    LET row == NewUserRow(userData, genId, t) IN
    IF ~users_pkey(us, row) \/ ~users_email_unique(us, row)
    THEN Outcome(NoError, us, ps, {})
    ELSE Outcome(NoError, us \cup {row}, ps, First({UserFromDriver(row)}))

UserRepository_create(us, ps, t, userData, genId) ==
    LET row == NewUserRow(userData, genId, t) IN
    IF ~users_pkey(us, row)
    THEN Outcome(UsersPkey, us, ps, {})
    ELSE IF ~users_email_unique(us, row)
    THEN Outcome(UsersEmailUnique, us, ps, {})
    ELSE Outcome(NoError, us \cup {row}, ps, First({UserFromDriver(row)}))

UserSet_patchWins(r, userData, t) ==
    [id        |-> IF userData.id = undefined THEN r.id ELSE userData.id,
     name      |-> IF userData.name = undefined THEN r.name ELSE userData.name,
     email     |-> IF userData.email = undefined THEN r.email ELSE userData.email,
     createdAt |-> IF userData.createdAt = noDate THEN r.createdAt
                   ELSE userData.createdAt,
     updatedAt |-> IF userData.updatedAt = noDate THEN newDate(t)
                   ELSE userData.updatedAt]

UserSet_touchCreatedAt(r, userData, t) ==
    [id        |-> IF userData.id = undefined THEN r.id ELSE userData.id,
     name      |-> IF userData.name = undefined THEN r.name ELSE userData.name,
     email     |-> IF userData.email = undefined THEN r.email ELSE userData.email,
     createdAt |-> newDate(t),
     updatedAt |-> newDate(t)]

\* { ...userData, updatedAt: new Date() } applied to one row.
UserSet(r, userData, t) ==
    [id        |-> IF userData.id = undefined THEN r.id ELSE userData.id,
     name      |-> IF userData.name = undefined THEN r.name ELSE userData.name,
     email     |-> IF userData.email = undefined THEN r.email ELSE userData.email,
     createdAt |-> IF userData.createdAt = noDate THEN r.createdAt
                   ELSE userData.createdAt,
     updatedAt |-> newDate(t)]

users_id_referenced_unchecked(ps, old, new) == FALSE

\* posts.authorId references users.id with no ON UPDATE action: a referenced
\* users.id cannot be changed.
users_id_referenced(ps, old, new) ==
    old.id # new.id /\ \E p \in ps : p.authorId = old.id

UserRepository_update_noWhere(us, ps, t, id, userData) ==
    LET new(r) == UserSet(r, userData, t) IN
    Outcome(NoError, {new(r) : r \in us}, ps,
            First({UserFromDriver(new(r)) : r \in us}))

UserRepository_update(us, ps, t, id, userData) ==
    LET hit    == {u \in us : u.id = id}
        others == us \ hit
        new(r) == UserSet(r, userData, t)
    IN
    IF \E r \in hit : ~users_pkey(others, new(r))
    THEN Outcome(UsersPkey, us, ps, {})
    ELSE IF \E r \in hit : ~users_email_unique(others, new(r))
    THEN Outcome(UsersEmailUnique, us, ps, {})
    ELSE IF \E r \in hit : users_id_referenced(ps, r, new(r))
    THEN Outcome(PostsAuthorFk, us, ps, {})
    ELSE Outcome(NoError, others \cup {new(r) : r \in hit}, ps,
                 First({UserFromDriver(new(r)) : r \in hit}))

UserRepository_delete_noWhere(us, ps, id) ==
    Outcome(NoError, {}, OnDeleteCascade(ps, {u.id : u \in us}), {})

UserRepository_delete(us, ps, id) ==
    LET hit == {u \in us : u.id = id} IN
    Outcome(NoError, us \ hit, OnDeleteCascade(ps, {u.id : u \in hit}), {})

\* The results findAll can return: all users, in any order.
UserRepository_findAll(us) ==
    {UsersFromDriver(s) : s \in AnyOrder(us)}

\* with: { posts: { orderBy: desc(posts.createdAt) } }
WithPosts(u, s) ==
    [id        |-> u.id,
     name      |-> u.name,
     email     |-> u.email,
     createdAt |-> mapFromDriverValue(u.createdAt),
     updatedAt |-> mapFromDriverValue(u.updatedAt),
     posts     |-> PostsFromDriver(s)]

UserRepository_getUserWithPosts_unordered(us, ps, id) ==
    LET hit == {u \in us : u.id = id} IN
    IF hit = {} THEN {{}}
    ELSE LET u == CHOOSE r \in hit : TRUE IN
         {{WithPosts(u, s)} : s \in AnyOrder({p \in ps : p.authorId = u.id})}

\* The results getUserWithPosts can return: undefined, or the user with its
\* posts in one of the orders the orderBy allows.
UserRepository_getUserWithPosts(us, ps, id) ==
    LET hit == {u \in us : u.id = id} IN
    IF hit = {} THEN {{}}
    ELSE LET u == CHOOSE r \in hit : TRUE IN
         {{WithPosts(u, s)} :
             s \in orderBy_desc_createdAt({p \in ps : p.authorId = u.id})}

(***************************************************************************)
(* PostRepository                                                          *)
(***************************************************************************)
NewPostRow(v, genId, t) ==
    [id        |-> IF v.id = undefined THEN genId ELSE v.id,
     title     |-> v.title,
     content   |-> v.content,
     authorId  |-> v.authorId,
     createdAt |-> IF v.createdAt = noDate THEN defaultNow(t) ELSE v.createdAt,
     updatedAt |-> IF v.updatedAt = noDate THEN defaultNow(t) ELSE v.updatedAt]

PostRepository_findById(ps, id) ==
    First({PostFromDriver(r) : r \in {p \in ps : p.id = id}})

\* The results findAll can return: all posts, newest first.
PostRepository_findAll(ps) ==
    {PostsFromDriver(s) : s \in orderBy_desc_createdAt(ps)}

PostRepository_findByAuthor_noWhere(ps, authorId) ==
    {PostsFromDriver(s) : s \in orderBy_desc_createdAt(ps)}

\* The results findByAuthor can return: the author's posts, newest first.
PostRepository_findByAuthor(ps, authorId) ==
    {PostsFromDriver(s) :
        s \in orderBy_desc_createdAt({p \in ps : p.authorId = authorId})}

PostRepository_create(us, ps, t, postData, genId) ==
    LET row == NewPostRow(postData, genId, t) IN
    IF ~posts_pkey(ps, row)
    THEN Outcome(PostsPkey, us, ps, {})
    ELSE IF ~posts_author_id_fk(us, row)
    THEN Outcome(PostsAuthorFk, us, ps, {})
    ELSE Outcome(NoError, us, ps \cup {row}, First({PostFromDriver(row)}))

\* { ...postData, updatedAt: new Date() } applied to one row.
PostSet(r, postData, t) ==
    [id        |-> IF postData.id = undefined THEN r.id ELSE postData.id,
     title     |-> IF postData.title = undefined THEN r.title ELSE postData.title,
     content   |-> IF postData.content = undefined THEN r.content
                   ELSE postData.content,
     authorId  |-> IF postData.authorId = undefined THEN r.authorId
                   ELSE postData.authorId,
     createdAt |-> IF postData.createdAt = noDate THEN r.createdAt
                   ELSE postData.createdAt,
     updatedAt |-> newDate(t)]

PostRepository_update_touchFirst(us, ps, t, id, postData) ==
    LET hit     == {p \in ps : p.id = id}
        others  == ps \ hit
        new(r)  == PostSet(r, postData, t)
        touched == others \cup {[r EXCEPT !.updatedAt = newDate(t)] : r \in hit}
    IN
    IF \E r \in hit : ~posts_pkey(others, new(r))
    THEN Outcome(PostsPkey, us, touched, {})
    ELSE IF \E r \in hit : ~posts_author_id_fk(us, new(r))
    THEN Outcome(PostsAuthorFk, us, touched, {})
    ELSE Outcome(NoError, us, others \cup {new(r) : r \in hit},
                 First({PostFromDriver(new(r)) : r \in hit}))

PostRepository_update(us, ps, t, id, postData) ==
    LET hit    == {p \in ps : p.id = id}
        others == ps \ hit
        new(r) == PostSet(r, postData, t)
    IN
    IF \E r \in hit : ~posts_pkey(others, new(r))
    THEN Outcome(PostsPkey, us, ps, {})
    ELSE IF \E r \in hit : ~posts_author_id_fk(us, new(r))
    THEN Outcome(PostsAuthorFk, us, ps, {})
    ELSE Outcome(NoError, us, others \cup {new(r) : r \in hit},
                 First({PostFromDriver(new(r)) : r \in hit}))

PostRepository_delete(us, ps, id) ==
    Outcome(NoError, us, {p \in ps : p.id # id}, {})

\* with: { author: true }: the post with the user its authorId references
\* (null, here the empty set, when there is none).
WithAuthor(us, p) ==
    [id        |-> p.id,
     title     |-> p.title,
     content   |-> p.content,
     authorId  |-> p.authorId,
     createdAt |-> mapFromDriverValue(p.createdAt),
     updatedAt |-> mapFromDriverValue(p.updatedAt),
     author    |-> {UserFromDriver(u) : u \in {r \in us : r.id = p.authorId}}]

PostRepository_getPostWithAuthor(us, ps, id) ==
    First({WithAuthor(us, p) : p \in {q \in ps : q.id = id}})

\* The results getPostsWithAuthors can return: all posts, newest first.
PostRepository_getPostsWithAuthors(us, ps) ==
    {[i \in DOMAIN s |-> WithAuthor(us, s[i])] : s \in orderBy_desc_createdAt(ps)}

PostRepository_getPostCount_authors(ps) == Cardinality({p.authorId : p \in ps})

\* select count(*) from posts
PostRepository_getPostCount(ps) == Cardinality(ps)

(***************************************************************************)
(* Inputs.                                                                 *)
(***************************************************************************)
Opt(S) == S \cup {undefined}

\* Ids a caller can put into the id of its object.
CallerUserIds == {"user_B"}
CallerPostIds == {"post_B"}

\* What a caller can put into id / createdAt / updatedAt: nothing, the two
\* dates, or all three.
NoExtra == [id |-> undefined, createdAt |-> noDate, updatedAt |-> noDate]
Extras(ids) ==
    {NoExtra} \cup
    {[id |-> i, createdAt |-> d, updatedAt |-> d] :
        i \in Opt(ids), d \in CallerDates}

UserData(n, e, x) ==
    [id |-> x.id, name |-> n, email |-> e,
     createdAt |-> x.createdAt, updatedAt |-> x.updatedAt]

PostData(ti, c, a, x) ==
    [id |-> x.id, title |-> ti, content |-> c, authorId |-> a,
     createdAt |-> x.createdAt, updatedAt |-> x.updatedAt]

(***************************************************************************)
(* Router procedures: validate the input, delegate, return the result.     *)
(***************************************************************************)
OmitKept(input) == input

\* .omit({ createdAt: true, id: true, updatedAt: true }): the parsed object
\* carries none of the three keys.
Omit(input) ==
    [input EXCEPT !.id = undefined, !.createdAt = noDate, !.updatedAt = noDate]

\* z.string()
IsString(v) == v # undefined

\* z.string().min(1), with an upper length where the schema has one
MinMax(v, lo, hi) == IsString(v) /\ Len(v) >= lo /\ Len(v) <= hi

users_create(us, ps, t, input, genId) ==
    IF ~(IsString(input.name) /\ IsString(input.email))
    THEN Outcome(BadRequest, us, ps, {})
    ELSE UserRepository_create(us, ps, t, Omit(input), genId)

users_update(us, ps, t, input) ==
    IF ~IsString(input.id)
    THEN Outcome(BadRequest, us, ps, {})
    ELSE UserRepository_update(us, ps, t, input.id, Omit(input.data))

\* return { success: true }
Success == [success |-> TRUE]

users_delete_notFound(us, ps, input) ==
    IF ~IsString(input.id)
    THEN Outcome(BadRequest, us, ps, {})
    ELSE IF \A u \in us : u.id # input.id
    THEN Outcome("NOT_FOUND", us, ps, {})
    ELSE LET out == UserRepository_delete(us, ps, input.id) IN
         Outcome(out.err, out.users, out.posts, Success)

users_delete(us, ps, input) ==
    IF ~IsString(input.id)
    THEN Outcome(BadRequest, us, ps, {})
    ELSE LET out == UserRepository_delete(us, ps, input.id) IN
         Outcome(out.err, out.users, out.posts, Success)

posts_create(us, ps, t, input, genId) ==
    IF ~(IsString(input.title) /\ IsString(input.content)
         /\ IsString(input.authorId))
    THEN Outcome(BadRequest, us, ps, {})
    ELSE PostRepository_create(us, ps, t, Omit(input), genId)

posts_update_unvalidated(us, ps, t, input) ==
    PostRepository_update(us, ps, t, input.id, Omit(input.data))

\* updatePostSchema: { id, data: createPostSchema.partial() }
posts_update(us, ps, t, input) ==
    LET d == input.data IN
    IF ~(/\ IsString(input.id)
         /\ d.title = undefined \/ MinMax(d.title, 1, TitleMax)
         /\ d.content = undefined \/ Len(d.content) >= 1
         /\ d.authorId = undefined \/ Len(d.authorId) >= 1)
    THEN Outcome(BadRequest, us, ps, {})
    ELSE PostRepository_update(us, ps, t, input.id, Omit(d))

posts_delete(us, ps, input) ==
    IF ~IsString(input.id)
    THEN Outcome(BadRequest, us, ps, {})
    ELSE LET out == PostRepository_delete(us, ps, input.id) IN
         Outcome(out.err, out.users, out.posts, Success)

Select_consuming(us, ps, results) == {Outcome(NoError, us, {}, r) : r \in results}

\* A query: a select against the tables, which returns one of the results
\* the statement can produce and writes nothing.
Select(us, ps, results) == {Outcome(NoError, us, ps, r) : r \in results}

users_getById(us, ps, input) ==
    IF ~IsString(input.id)
    THEN {Outcome(BadRequest, us, ps, {})}
    ELSE Select(us, ps, {UserRepository_findById(us, input.id)})

users_getUserWithPosts(us, ps, input) ==
    IF ~IsString(input.id)
    THEN {Outcome(BadRequest, us, ps, {})}
    ELSE Select(us, ps, UserRepository_getUserWithPosts(us, ps, input.id))

users_list(us, ps) == Select(us, ps, UserRepository_findAll(us))

posts_getByAuthor(us, ps, input) ==
    IF ~IsString(input.authorId)
    THEN {Outcome(BadRequest, us, ps, {})}
    ELSE Select(us, ps, PostRepository_findByAuthor(ps, input.authorId))

posts_getById(us, ps, input) ==
    IF ~IsString(input.id)
    THEN {Outcome(BadRequest, us, ps, {})}
    ELSE Select(us, ps, {PostRepository_findById(ps, input.id)})

posts_getCount(us, ps) ==
    Select(us, ps, {[count |-> PostRepository_getPostCount(ps)]})

posts_getPostsWithAuthors(us, ps) ==
    Select(us, ps, PostRepository_getPostsWithAuthors(us, ps))

posts_list(us, ps) == Select(us, ps, PostRepository_findAll(ps))

(***************************************************************************)
(* helloRouter: two procedures that touch no table.                        *)
(***************************************************************************)
HelloNames == {"", "Ada"}
HelloMethods == {"GET", "PUT", "POST"}

\* z.enum(['GET', 'PUT']).optional().default('GET')
MethodOrDefault(m) == IF m = undefined THEN "GET" ELSE m

\* input.name ? ... : ... (undefined and the empty string are falsy)
Truthy(v) == v \notin {undefined, ""}

hello_hello_ifDefined(us, ps, input) ==
    IF input.method \notin {undefined, "GET", "PUT"}
    THEN Outcome(BadRequest, us, ps, {})
    ELSE Outcome(NoError, us, ps,
                 [message |-> IF input.name # undefined
                              THEN "Hello, " \o input.name \o "!"
                              ELSE "Hello, world!",
                  method  |-> MethodOrDefault(input.method)])

hello_hello(us, ps, input) ==
    IF input.method \notin {undefined, "GET", "PUT"}
    THEN Outcome(BadRequest, us, ps, {})
    ELSE Outcome(NoError, us, ps,
                 [message |-> IF Truthy(input.name)
                              THEN "Hello, " \o input.name \o "!"
                              ELSE "Hello, world!",
                  method  |-> MethodOrDefault(input.method)])

hello_updateHello(us, ps, input) ==
    Outcome(NoError, us, ps,
            [message |-> IF Truthy(input.name)
                         THEN "Hello, " \o input.name \o "! (Updated)"
                         ELSE "Hello, world! (Updated)",
             method  |-> "PUT"])

(***************************************************************************)
(* State machine.  Callers issue one call at a time.  A call is one step:  *)
(* it runs its statement against the tables and leaves in `last` what the  *)
(* caller gets back, next to what it passed and the tables it ran against. *)
(* Return hands the response over; the clock advances between calls.       *)
(***************************************************************************)
Idle == [op |-> "idle"]

\* A caller that creates a user and then looks the created id up: where it
\* is, the row create returned and what findById returned.
NotStarted == [pc |-> "start", row |-> {}, found |-> {}]

\* Concurrent repository calls: each slot holds one call, which reads its
\* arguments and the application clock when it is made, suspends at its
\* store statement and is done when the statement has executed.  base is the
\* store when the first call of the batch was made.
MaxCalls == 2
CallIds == 1..MaxCalls

NoCall ==
    [pc |-> "none", op |-> "none", id |-> undefined, userData |-> NoExtra,
     genId |-> undefined, t |-> 0, out |-> Outcome(NoError, {}, {}, {})]

NoCalls ==
    [base |-> [users |-> {}, posts |-> {}, clock |-> 0],
     slot |-> [c \in CallIds |-> NoCall]]

\* The query cache of the client: one entry per query key, a key being a
\* query procedure and its argument ("" for the procedures without input).
\* An entry is absent, fresh, or invalidated (stale).
MaxCached == 2
HookPostIds == {"post_A"}

Key(proc, arg) == [proc |-> proc, arg |-> arg]

HookKeys ==
    {Key(p, "") : p \in {"users.list", "posts.list",
                         "posts.getPostsWithAuthors", "posts.getCount"}} \cup
    {Key(p, id) : p \in {"users.getById", "users.getUserWithPosts",
                         "posts.getByAuthor"}, id \in UserIds} \cup
    {Key("posts.getById", id) : id \in HookPostIds}

NotCached == [status |-> "none", data |-> {}]
NoCache == [k \in HookKeys |-> NotCached]

Exec(op, input, genId, out) ==
    /\ last.op = "idle"
    /\ users' = out.users
    /\ posts' = out.posts
    /\ last' = [op     |-> op,
                input  |-> input,
                genId  |-> genId,
                users  |-> users,
                posts  |-> posts,
                err    |-> out.err,
                result |-> out.result]
    /\ UNCHANGED clock

Call(op, input, genId, out) ==
    /\ Exec(op, input, genId, out)
    /\ UNCHANGED aux

Init ==
    /\ users = {}
    /\ posts = {}
    /\ clock = 0
    /\ last = Idle
    /\ gen = NotGenerating
    /\ client = NotStarted
    /\ calls = NoCalls
    /\ cache = NoCache

Return ==
    /\ last.op # "idle"
    /\ last' = Idle
    /\ UNCHANGED <<users, posts, clock, aux>>

Tick ==
    /\ last.op = "idle"
    /\ clock < MaxClock
    /\ clock' = clock + 1
    /\ UNCHANGED <<users, posts, last, aux>>

\* Repository layer: callers pass a NewUser / NewPost or a Partial of one.
NewUsers(names) ==
    {UserData(n, e, x) : n \in names, e \in Emails, x \in Extras(CallerUserIds)}

PartialNewUsers(names) ==
    {UserData(n, e, x) :
        n \in Opt(names), e \in Opt(Emails), x \in Extras(CallerUserIds)}

NewPosts(titles) ==
    {PostData(ti, c, a, x) :
        ti \in titles, c \in Contents, a \in UserIds, x \in Extras(CallerPostIds)}

PartialNewPosts(titles) ==
    {PostData(ti, c, a, x) :
        ti \in Opt(titles), c \in Opt(Contents), a \in Opt(UserIds),
        x \in Extras(CallerPostIds)}

RepoUserCreate(names) ==
    \E userData \in NewUsers(names), genId \in UserIds :
        Call("UserRepository.create", userData, genId,
             UserRepository_create(users, posts, clock, userData, genId))

RepoUserUpdate(names) ==
    \E id \in UserIds, userData \in PartialNewUsers(names) :
        Call("UserRepository.update", [id |-> id, data |-> userData], undefined,
             UserRepository_update(users, posts, clock, id, userData))

RepoUserDelete ==
    \E id \in UserIds :
        Call("UserRepository.delete", [id |-> id], undefined,
             UserRepository_delete(users, posts, id))

RepoPostCreate(titles, ids) ==
    \E postData \in NewPosts(titles), genId \in ids :
        Call("PostRepository.create", postData, genId,
             PostRepository_create(users, posts, clock, postData, genId))

RepoPostUpdate(titles, ids) ==
    \E id \in ids, postData \in PartialNewPosts(titles) :
        Call("PostRepository.update", [id |-> id, data |-> postData], undefined,
             PostRepository_update(users, posts, clock, id, postData))

RepoPostDelete(ids) ==
    \E id \in ids :
        Call("PostRepository.delete", [id |-> id], undefined,
             PostRepository_delete(users, posts, id))

\* The repository's reads.
NoInput == <<>>

RepoUserFindAll ==
    /\ last.op = "idle"
    /\ \E out \in Select(users, posts, UserRepository_findAll(users)) :
           Call("UserRepository.findAll", NoInput, undefined, out)

RepoUserFindById ==
    /\ last.op = "idle"
    /\ \E id \in UserIds :
           \E out \in Select(users, posts, {UserRepository_findById(users, id)}) :
               Call("UserRepository.findById", [id |-> id], undefined, out)

RepoUserFindByEmail ==
    /\ last.op = "idle"
    /\ \E email \in Emails :
           \E out \in Select(users, posts,
                             {UserRepository_findByEmail(users, email)}) :
               Call("UserRepository.findByEmail", [email |-> email], undefined, out)

RepoUserGetUserWithPosts ==
    /\ last.op = "idle"
    /\ \E id \in UserIds :
           \E out \in Select(users, posts,
                             UserRepository_getUserWithPosts(users, posts, id)) :
               Call("UserRepository.getUserWithPosts", [id |-> id], undefined, out)

RepoPostFindAll ==
    /\ last.op = "idle"
    /\ \E out \in Select(users, posts, PostRepository_findAll(posts)) :
           Call("PostRepository.findAll", NoInput, undefined, out)

RepoPostFindById(ids) ==
    /\ last.op = "idle"
    /\ \E id \in ids :
           \E out \in Select(users, posts, {PostRepository_findById(posts, id)}) :
               Call("PostRepository.findById", [id |-> id], undefined, out)

RepoPostFindByAuthor ==
    /\ last.op = "idle"
    /\ \E authorId \in UserIds :
           \E out \in Select(users, posts,
                             PostRepository_findByAuthor(posts, authorId)) :
               Call("PostRepository.findByAuthor", [authorId |-> authorId],
                    undefined, out)

RepoPostGetPostWithAuthor(ids) ==
    /\ last.op = "idle"
    /\ \E id \in ids :
           \E out \in Select(users, posts,
                             {PostRepository_getPostWithAuthor(users, posts, id)}) :
               Call("PostRepository.getPostWithAuthor", [id |-> id], undefined, out)

RepoPostGetPostsWithAuthors ==
    /\ last.op = "idle"
    /\ \E out \in Select(users, posts,
                         PostRepository_getPostsWithAuthors(users, posts)) :
           Call("PostRepository.getPostsWithAuthors", NoInput, undefined, out)

RepoPostGetPostCount ==
    /\ last.op = "idle"
    /\ \E out \in Select(users, posts, {PostRepository_getPostCount(posts)}) :
           Call("PostRepository.getPostCount", NoInput, undefined, out)

RepoReads(ids) ==
    \/ RepoUserFindAll
    \/ RepoUserFindById
    \/ RepoUserFindByEmail
    \/ RepoUserGetUserWithPosts
    \/ RepoPostFindAll
    \/ RepoPostFindById(ids)
    \/ RepoPostFindByAuthor
    \/ RepoPostGetPostWithAuthor(ids)
    \/ RepoPostGetPostsWithAuthors
    \/ RepoPostGetPostCount

\* Router layer: callers pass any object; it may carry more than the schema
\* names, or lack a field the schema requires.
UserCreateInputs(names) ==
    {UserData(n, e, x) :
        n \in Opt(names), e \in Opt(Emails), x \in Extras(CallerUserIds)}

UserUpdateInputs(names) ==
    {[id |-> id, data |-> d] : id \in Opt(UserIds), d \in PartialNewUsers(names)}

PostCreateInputs(titles) ==
    {PostData(ti, c, a, x) :
        ti \in Opt(titles), c \in Opt(Contents), a \in Opt(UserIds),
        x \in Extras(CallerPostIds)}

PostUpdateInputs(titles, ids) ==
    {[id |-> id, data |-> d] : id \in Opt(ids), d \in PartialNewPosts(titles)}

RpcUserCreate(names) ==
    \E input \in UserCreateInputs(names), genId \in UserIds :
        Call("users.create", input, genId,
             users_create(users, posts, clock, input, genId))

RpcUserUpdate(names) ==
    \E input \in UserUpdateInputs(names) :
        Call("users.update", input, undefined,
             users_update(users, posts, clock, input))

RpcUserDelete ==
    \E id \in Opt(UserIds) :
        Call("users.delete", [id |-> id], undefined,
             users_delete(users, posts, [id |-> id]))

RpcPostCreate(titles, ids) ==
    \E input \in PostCreateInputs(titles), genId \in ids :
        Call("posts.create", input, genId,
             posts_create(users, posts, clock, input, genId))

RpcPostUpdate(titles, ids) ==
    \E input \in PostUpdateInputs(titles, ids) :
        Call("posts.update", input, undefined,
             posts_update(users, posts, clock, input))

RpcPostDelete(ids) ==
    \E id \in Opt(ids) :
        Call("posts.delete", [id |-> id], undefined,
             posts_delete(users, posts, [id |-> id]))

RpcUserGetById ==
    /\ last.op = "idle"
    /\ \E id \in Opt(UserIds) :
           \E out \in users_getById(users, posts, [id |-> id]) :
               Call("users.getById", [id |-> id], undefined, out)

RpcUserGetUserWithPosts ==
    /\ last.op = "idle"
    /\ \E id \in Opt(UserIds) :
           \E out \in users_getUserWithPosts(users, posts, [id |-> id]) :
               Call("users.getUserWithPosts", [id |-> id], undefined, out)

RpcUserList ==
    /\ last.op = "idle"
    /\ \E out \in users_list(users, posts) :
           Call("users.list", NoInput, undefined, out)

RpcPostGetByAuthor ==
    /\ last.op = "idle"
    /\ \E authorId \in Opt(UserIds) :
           \E out \in posts_getByAuthor(users, posts, [authorId |-> authorId]) :
               Call("posts.getByAuthor", [authorId |-> authorId], undefined, out)

RpcPostGetById(ids) ==
    /\ last.op = "idle"
    /\ \E id \in Opt(ids) :
           \E out \in posts_getById(users, posts, [id |-> id]) :
               Call("posts.getById", [id |-> id], undefined, out)

RpcPostGetCount ==
    /\ last.op = "idle"
    /\ \E out \in posts_getCount(users, posts) :
           Call("posts.getCount", NoInput, undefined, out)

RpcPostGetPostsWithAuthors ==
    /\ last.op = "idle"
    /\ \E out \in posts_getPostsWithAuthors(users, posts) :
           Call("posts.getPostsWithAuthors", NoInput, undefined, out)

RpcPostList ==
    /\ last.op = "idle"
    /\ \E out \in posts_list(users, posts) :
           Call("posts.list", NoInput, undefined, out)

RpcHello ==
    \E name \in Opt(HelloNames), method \in Opt(HelloMethods) :
        LET input == [name |-> name, method |-> method] IN
        Call("hello.hello", input, undefined, hello_hello(users, posts, input))

RpcUpdateHello ==
    \E name \in Opt(HelloNames) :
        LET input == [name |-> name] IN
        Call("hello.updateHello", input, undefined,
             hello_updateHello(users, posts, input))

RpcQueries(ids) ==
    \/ RpcUserGetById
    \/ RpcUserGetUserWithPosts
    \/ RpcUserList
    \/ RpcPostGetByAuthor
    \/ RpcPostGetById(ids)
    \/ RpcPostGetCount
    \/ RpcPostGetPostsWithAuthors
    \/ RpcPostList

\* The smaller universe of the specifications in which the clock advances.
TimeNames == {"Ada"}
TimeTitles == {"Hi"}
TimePostIds == {"post_A"}

Next ==
    \/ Return
    \/ RepoUserCreate(Names)
    \/ RepoUserUpdate(Names)
    \/ RepoUserDelete
    \/ RepoPostCreate(Titles, PostIds)
    \/ RepoPostUpdate(Titles, PostIds)
    \/ RepoPostDelete(PostIds)
    \/ RepoReads(PostIds)

RpcNext ==
    \/ Return
    \/ RpcUserCreate(Names)
    \/ RpcUserUpdate(Names)
    \/ RpcUserDelete
    \/ RpcPostCreate(Titles, PostIds)
    \/ RpcPostUpdate(Titles, PostIds)
    \/ RpcPostDelete(PostIds)
    \/ RpcQueries(PostIds)
    \/ RpcHello
    \/ RpcUpdateHello

TimeNext ==
    \/ Tick
    \/ Return
    \/ RepoUserCreate(TimeNames)
    \/ RepoUserUpdate(TimeNames)
    \/ RepoUserDelete
    \/ RepoPostCreate(TimeTitles, TimePostIds)
    \/ RepoPostUpdate(TimeTitles, TimePostIds)
    \/ RepoPostDelete(TimePostIds)
    \/ RepoReads(TimePostIds)

\* Creates, deletes and reads of two users and two posts while the clock
\* advances.
ReadNext ==
    \/ Tick
    \/ Return
    \/ RepoUserCreate(TimeNames)
    \/ RepoUserDelete
    \/ RepoPostCreate(TimeTitles, PostIds)
    \/ RepoPostDelete(PostIds)
    \/ RepoReads(PostIds)

RpcTimeNext ==
    \/ Tick
    \/ Return
    \/ RpcUserCreate(TimeNames)
    \/ RpcUserUpdate(TimeNames)
    \/ RpcUserDelete
    \/ RpcPostCreate(TimeTitles, TimePostIds)
    \/ RpcPostUpdate(TimeTitles, TimePostIds)
    \/ RpcPostDelete(TimePostIds)
    \/ RpcQueries(TimePostIds)

\* Repository creates and updates and the users.update procedure while the
\* clock advances.
UpdateNext ==
    \/ Tick
    \/ Return
    \/ RepoUserCreate(TimeNames)
    \/ RepoUserUpdate(TimeNames)
    \/ RepoPostCreate(TimeTitles, TimePostIds)
    \/ RepoPostUpdate(TimeTitles, TimePostIds)
    \/ RpcUserUpdate(TimeNames)

Spec == Init /\ [][Next]_vars
UpdateSpec == Init /\ [][UpdateNext]_vars
RpcSpec == Init /\ [][RpcNext]_vars
TimeSpec == Init /\ [][TimeNext]_vars
RpcTimeSpec == Init /\ [][RpcTimeNext]_vars
ReadSpec == Init /\ [][ReadNext]_vars

\* The identifier generator: createUserId() / createPostId() is called, the
\* generator consumes random bytes until it holds `size` characters, and the
\* call returns the prefixed identifier.
IdInit ==
    /\ users = {}
    /\ posts = {}
    /\ clock = 0
    /\ last = Idle
    /\ client = NotStarted
    /\ calls = NoCalls
    /\ cache = NoCache
    /\ gen \in {[fn |-> f, id |-> <<>>, value |-> <<>>] :
                    f \in {"createUserId", "createPostId"}}

NanoidByte ==
    /\ gen.value = <<>>
    /\ Len(gen.id) < size
    /\ \E byte \in Bytes : gen' = [gen EXCEPT !.id = @ \o Pick(byte)]
    /\ UNCHANGED <<users, posts, clock, last, client, calls, cache>>

CreateUserId ==
    /\ gen.fn = "createUserId"
    /\ gen.value = <<>>
    /\ Len(gen.id) = size
    /\ gen' = [gen EXCEPT !.value = UserPrefix \o gen.id]
    /\ UNCHANGED <<users, posts, clock, last, client, calls, cache>>

CreatePostId ==
    /\ gen.fn = "createPostId"
    /\ gen.value = <<>>
    /\ Len(gen.id) = size
    /\ gen' = [gen EXCEPT !.value = PostPrefix \o gen.id]
    /\ UNCHANGED <<users, posts, clock, last, client, calls, cache>>

\* One caller runs create and then findById(result.id), two calls, while
\* other callers update and delete users.
ClientCreate ==
    /\ client.pc = "start"
    /\ \E userData \in NewUsers(TimeNames), genId \in UserIds :
          LET out == UserRepository_create(users, posts, clock, userData, genId)
          IN
          /\ Exec("UserRepository.create", userData, genId, out)
          /\ client' = [pc    |-> IF out.err = NoError THEN "created"
                                  ELSE "failed",
                        row   |-> out.result,
                        found |-> {}]
    /\ UNCHANGED <<gen, calls, cache>>

ClientFindById ==
    /\ client.pc = "created"
    /\ \E r \in client.row :
          LET found == UserRepository_findById(users, r.id) IN
          /\ Exec("UserRepository.findById", [id |-> r.id], undefined,
                  Outcome(NoError, users, posts, found))
          /\ client' = [client EXCEPT !.pc = "done", !.found = found]
    /\ UNCHANGED <<gen, calls, cache>>

ClientNext ==
    \/ Tick
    \/ Return
    \/ ClientCreate
    \/ ClientFindById
    \/ RepoUserCreate(TimeNames)
    \/ RepoUserUpdate(TimeNames)
    \/ RepoUserDelete

ClientSpec == Init /\ [][ClientNext]_vars

\* Concurrent calls of UserRepository.  A call evaluates its arguments when
\* it is made: create takes the generated id, update reads new Date(); then
\* it awaits its one statement, which the store executes atomically at some
\* later moment, in any order with the statements of the other calls.
ConcUsers == {UserData("Ada", e, NoExtra) : e \in Emails}
ConcPatches == {UserData(n, undefined, NoExtra) : n \in Opt(Names)}

StartCall(c, call) ==
    /\ last.op = "idle"
    /\ calls.slot[c].pc = "none"
    /\ calls' =
          [base |-> IF \A d \in CallIds : calls.slot[d].pc = "none"
                    THEN [users |-> users, posts |-> posts, clock |-> clock]
                    ELSE calls.base,
           slot |-> [calls.slot EXCEPT ![c] = call]]
    /\ UNCHANGED <<users, posts, clock, last, gen, client, cache>>

Suspended(op, id, userData, genId) ==
    [pc |-> "suspended", op |-> op, id |-> id, userData |-> userData,
     genId |-> genId, t |-> clock, out |-> NoCall.out]

ConcUserCreate(c) ==
    \E userData \in ConcUsers, genId \in UserIds :
        StartCall(c, Suspended("UserRepository.create", undefined, userData, genId))

ConcUserUpdate(c) ==
    \E id \in UserIds, userData \in ConcPatches :
        StartCall(c, Suspended("UserRepository.update", id, userData, undefined))

ConcUserDelete(c) ==
    \E id \in UserIds :
        StartCall(c, Suspended("UserRepository.delete", id, NoExtra, undefined))

ConcUserFindById(c) ==
    \E id \in UserIds :
        StartCall(c, Suspended("UserRepository.findById", id, NoExtra, undefined))

\* The statement of a call, made at tCall, executing at tExec on a store.
Statement(call, us, ps, tCall, tExec) ==
    CASE call.op = "UserRepository.create" ->
             UserRepository_create(us, ps, tExec, call.userData, call.genId)
      [] call.op = "UserRepository.update" ->
             UserRepository_update(us, ps, tCall, call.id, call.userData)
      [] call.op = "UserRepository.delete" ->
             UserRepository_delete(us, ps, call.id)
      [] call.op = "UserRepository.findById" ->
             Outcome(NoError, us, ps, UserRepository_findById(us, call.id))

ConcStatement(c) ==
    /\ calls.slot[c].pc = "suspended"
    /\ LET out == Statement(calls.slot[c], users, posts, calls.slot[c].t, clock)
       IN
       /\ users' = out.users
       /\ posts' = out.posts
       /\ calls' = [calls EXCEPT !.slot[c].pc = "done", !.slot[c].out = out]
    /\ UNCHANGED <<clock, last, gen, client, cache>>

\* All calls of the batch have returned.
ConcSettled ==
    /\ \A c \in CallIds : calls.slot[c].pc # "suspended"
    /\ \E c \in CallIds : calls.slot[c].pc = "done"

ConcReturn ==
    /\ ConcSettled
    /\ calls' = NoCalls
    /\ UNCHANGED <<users, posts, clock, last, gen, client, cache>>

ConcNext ==
    \/ Tick
    \/ \E c \in CallIds : ConcUserCreate(c)
    \/ \E c \in CallIds : ConcUserUpdate(c)
    \/ \E c \in CallIds : ConcUserDelete(c)
    \/ \E c \in CallIds : ConcUserFindById(c)
    \/ \E c \in CallIds : ConcStatement(c)
    \/ ConcReturn

ConcSpec == Init /\ [][ConcNext]_vars

\* The React Query hooks.  A query hook fetches through its procedure when
\* its key holds no fresh entry and caches the result; a mutation hook calls
\* its procedure and, in onSuccess, invalidates the keys it names.
Query(k, us, ps) ==
    CASE k.proc = "users.list" -> users_list(us, ps)
      [] k.proc = "users.getById" -> users_getById(us, ps, [id |-> k.arg])
      [] k.proc = "users.getUserWithPosts" ->
             users_getUserWithPosts(us, ps, [id |-> k.arg])
      [] k.proc = "posts.list" -> posts_list(us, ps)
      [] k.proc = "posts.getById" -> posts_getById(us, ps, [id |-> k.arg])
      [] k.proc = "posts.getByAuthor" ->
             posts_getByAuthor(us, ps, [authorId |-> k.arg])
      [] k.proc = "posts.getPostsWithAuthors" ->
             posts_getPostsWithAuthors(us, ps)
      [] k.proc = "posts.getCount" -> posts_getCount(us, ps)

useQuery(k) ==
    /\ last.op = "idle"
    /\ cache[k].status # "fresh"
    /\ Cardinality({j \in HookKeys : cache[j].status # "none"} \cup {k})
          <= MaxCached
    /\ \E out \in Query(k, users, posts) :
          /\ Exec(k.proc, k.arg, undefined, out)
          /\ cache' = [cache EXCEPT ![k] = [status |-> "fresh",
                                            data   |-> out.result]]
    /\ UNCHANGED <<gen, client, calls>>

useUsers == useQuery(Key("users.list", ""))
useUser == \E id \in UserIds : useQuery(Key("users.getById", id))
useUserWithPosts ==
    \E id \in UserIds : useQuery(Key("users.getUserWithPosts", id))
usePosts == useQuery(Key("posts.list", ""))
usePost == \E id \in HookPostIds : useQuery(Key("posts.getById", id))
usePostsByAuthor ==
    \E authorId \in UserIds : useQuery(Key("posts.getByAuthor", authorId))
usePostsWithAuthors == useQuery(Key("posts.getPostsWithAuthors", ""))
usePostCount == useQuery(Key("posts.getCount", ""))

\* queryClient.invalidateQueries({ queryKey }) for each of the keys
invalidateQueries(c, keys) ==
    [k \in HookKeys |->
        IF k \in keys /\ c[k].status = "fresh"
        THEN [c[k] EXCEPT !.status = "stale"]
        ELSE c[k]]

useMutation(op, input, genId, out, keys) ==
    /\ Exec(op, input, genId, out)
    /\ cache' = IF out.err = NoError THEN invalidateQueries(cache, keys)
               ELSE cache
    /\ UNCHANGED <<gen, client, calls>>

HookUsers == {UserData("Ada", e, NoExtra) : e \in Emails}
HookUserPatches == {UserData("", undefined, NoExtra)}
HookPosts == {PostData("Hi", "World", a, NoExtra) : a \in UserIds}
HookPostPatches == {PostData(undefined, undefined, a, NoExtra) : a \in UserIds}

useCreateUser ==
    \E input \in HookUsers, genId \in UserIds :
        useMutation("users.create", input, genId,
                    users_create(users, posts, clock, input, genId),
                    {Key("users.list", "")})

useUpdateUser ==
    \E id \in UserIds, data \in HookUserPatches :
        LET input == [id |-> id, data |-> data]
            out   == users_update(users, posts, clock, input)
        IN
        useMutation("users.update", input, undefined, out,
                    {Key("users.list", "")} \cup
                    {Key(p, r.id) : p \in {"users.getById",
                                           "users.getUserWithPosts"},
                                   r \in out.result})

useDeleteUser ==
    \E id \in UserIds :
        useMutation("users.delete", [id |-> id], undefined,
                    users_delete(users, posts, [id |-> id]),
                    {Key("users.list", "")})

useCreatePost ==
    \E input \in HookPosts, genId \in HookPostIds :
        useMutation("posts.create", input, genId,
                    posts_create(users, posts, clock, input, genId),
                    {Key("posts.list", ""), Key("posts.getPostsWithAuthors", ""),
                     Key("posts.getCount", "")})

useUpdatePost ==
    \E id \in HookPostIds, data \in HookPostPatches :
        LET input == [id |-> id, data |-> data] IN
        useMutation("posts.update", input, undefined,
                    posts_update(users, posts, clock, input),
                    {Key("posts.list", ""), Key("posts.getPostsWithAuthors", ""),
                     Key("posts.getById", input.id)})

useDeletePost ==
    \E id \in HookPostIds :
        useMutation("posts.delete", [id |-> id], undefined,
                    posts_delete(users, posts, [id |-> id]),
                    {Key("posts.list", ""), Key("posts.getPostsWithAuthors", ""),
                     Key("posts.getCount", "")})

HookNext ==
    \/ Return
    \/ useUsers
    \/ useUser
    \/ useUserWithPosts
    \/ usePosts
    \/ usePost
    \/ usePostsByAuthor
    \/ usePostsWithAuthors
    \/ usePostCount
    \/ useCreateUser
    \/ useUpdateUser
    \/ useDeleteUser
    \/ useCreatePost
    \/ useUpdatePost
    \/ useDeletePost

HookSpec == Init /\ [][HookNext]_vars

IdNext ==
    \/ NanoidByte
    \/ CreateUserId
    \/ CreatePostId

IdSpec == IdInit /\ [][IdNext]_vars

(***************************************************************************)
(* Properties.  `last` holds the call that led to the state: its input,    *)
(* the tables it ran against, and what it raised and returned; users and   *)
(* posts are the tables it left.                                           *)
(***************************************************************************)
Ids(rows) == {r.id : r \in rows}
Succeeded == last.err = NoError
UserUpdates == {"UserRepository.update", "users.update"}
PostUpdates == {"PostRepository.update", "posts.update"}

\* C1: through users.create, users.update and users.delete no two User rows
\* ever have the same email, and a users.update whose patch sets the email of
\* a different existing user fails with the unique violation and writes
\* nothing.
C1_EmailUnique ==
    /\ \A a \in users, b \in users : a.email = b.email => a = b
    /\ (/\ last.op = "users.update"
        /\ \E u \in last.users, o \in last.users :
              /\ u.id = last.input.id
              /\ o.id # u.id
              /\ o.email = last.input.data.email)
       => /\ last.err = UsersEmailUnique
          /\ users = last.users

C1_Witness ==
    /\ last.op = "users.update"
    /\ last.err = UsersEmailUnique
    /\ Cardinality(users) = 2

\* C2: through the user and post create, update and delete procedures every
\* Post row's authorId is the id of an existing User row, also after a
\* posts.update that changed authorId and after a users.delete.
C2_NoOrphanPost ==
    \A p \in posts : \E u \in users : u.id = p.authorId

C2_Witness ==
    /\ last.op = "posts.update"
    /\ Succeeded
    /\ \E o \in last.posts, n \in posts :
           o.id = n.id /\ o.authorId # n.authorId

\* C3: UserRepository.create with the email of an existing user fails with a
\* constraint violation, returns nothing, and leaves the users table as it
\* was.
C3_DuplicateEmailRejected ==
    (/\ last.op = "UserRepository.create"
     /\ \E u \in last.users : u.email = last.input.email)
    => /\ last.err \in ConstraintViolations
       /\ last.result = {}
       /\ users = last.users

C3_Witness ==
    /\ last.op = "UserRepository.create"
    /\ last.err = UsersEmailUnique
    /\ users # {}

\* C4: PostRepository.create with an authorId that is the id of no existing
\* user fails with a constraint violation, returns nothing, and leaves the
\* posts table as it was.
C4_MissingAuthorRejected ==
    (/\ last.op = "PostRepository.create"
     /\ last.input.authorId \notin Ids(last.users))
    => /\ last.err \in ConstraintViolations
       /\ last.result = {}
       /\ posts = last.posts

C4_Witness ==
    /\ last.op = "PostRepository.create"
    /\ last.err = PostsAuthorFk
    /\ users # {}
    /\ posts # {}

\* C5: UserRepository.delete(u.id) of an existing user u removes u and no
\* other user, removes exactly the posts whose authorId was u.id and no
\* other post, changes no remaining row, and leaves findByAuthor(u.id) empty.
C5_DeleteCascades ==
    (/\ last.op = "UserRepository.delete"
     /\ last.input.id \in Ids(last.users))
    => /\ Succeeded
       /\ users = {u \in last.users : u.id # last.input.id}
       /\ posts = {p \in last.posts : p.authorId # last.input.id}
       /\ PostRepository_findByAuthor(posts, last.input.id) = {<<>>}

C5_Witness ==
    /\ last.op = "UserRepository.delete"
    /\ last.input.id \in Ids(last.users)
    /\ \E p \in last.posts : p.authorId = last.input.id
    /\ posts # {}

\* C6: the row a successful UserRepository.create / PostRepository.create
\* returns carries the supplied name and email (title, content, authorId) and,
\* when the input names no id, the generated id; findById(result.id) issued
\* next returns a row equal to it in every field.
C6_CreateThenFindById ==
    /\ (last.op = "UserRepository.create" /\ Succeeded)
       => \E r \in last.result :
            /\ last.result = {r}
            /\ r.name = last.input.name
            /\ r.email = last.input.email
            /\ last.input.id = undefined => r.id = last.genId
            /\ UserRepository_findById(users, r.id) = {r}
    /\ (last.op = "PostRepository.create" /\ Succeeded)
       => \E r \in last.result :
            /\ last.result = {r}
            /\ r.title = last.input.title
            /\ r.content = last.input.content
            /\ r.authorId = last.input.authorId
            /\ last.input.id = undefined => r.id = last.genId
            /\ PostRepository_findById(posts, r.id) = {r}

\* A create at a store instant that is not a whole JavaScript millisecond.
C6_Witness ==
    /\ last.op = "UserRepository.create"
    /\ Succeeded
    /\ last.input.id = undefined
    /\ last.users # {}
    /\ defaultNow(clock) # mapFromDriverValue(defaultNow(clock))

\* C7: UserRepository.update / PostRepository.update with an id that matches
\* no row returns undefined, raises no error and leaves both tables as they
\* were.
C7_UpdateOfMissingRow ==
    /\ (last.op = "UserRepository.update" /\ last.input.id \notin Ids(last.users))
       => Succeeded /\ last.result = {} /\ users = last.users /\ posts = last.posts
    /\ (last.op = "PostRepository.update" /\ last.input.id \notin Ids(last.posts))
       => Succeeded /\ last.result = {} /\ users = last.users /\ posts = last.posts

C7_Witness ==
    /\ last.op = "UserRepository.update"
    /\ last.input.id \notin Ids(last.users)
    /\ last.users # {}
    /\ last.posts # {}
    /\ last.input.data.email \in {u.email : u \in last.users}

\* The row a repository update targeted, as it was before the call.
Targeted ==
    IF last.op \in UserUpdates
    THEN {u \in last.users : u.id = last.input.id}
    ELSE {p \in last.posts : p.id = last.input.id}

\* C8 as stated: after a successful update of an existing row, its updatedAt
\* (as read back) is strictly greater than before the call.
C8_UpdatedAtStrictlyGreater ==
    (/\ last.op \in {"UserRepository.update", "PostRepository.update"}
     /\ Succeeded)
    => \A o \in Targeted, r \in last.result :
          r.updatedAt > mapFromDriverValue(o.updatedAt)

\* C8 amended: a successful UserRepository.update / PostRepository.update of
\* an existing row returns and stores that row with updatedAt equal to the
\* application clock's reading at the call, whatever the patch: the empty
\* patch and a patch that names updatedAt included.  (The reading need not be
\* later than the previous value.)
C8_UpdatedAtIsCallTime ==
    (/\ last.op \in {"UserRepository.update", "PostRepository.update"}
     /\ Succeeded
     /\ Targeted # {})
    => \E r \in last.result :
          /\ last.result = {r}
          /\ r.updatedAt = newDate(clock)
          /\ \E n \in (IF last.op \in UserUpdates THEN users ELSE posts) :
                n.id = r.id /\ n.updatedAt = newDate(clock)

\* An update with a patch that names updatedAt, at a later clock reading.
C8_Witness ==
    /\ last.op = "UserRepository.update"
    /\ Succeeded
    /\ last.input.data.updatedAt # noDate
    /\ last.input.data.updatedAt # newDate(clock)
    /\ \E o \in Targeted : newDate(clock) > o.updatedAt

\* C9: a users.update whose patch sets the email of another user, and a
\* posts.update whose patch sets an authorId that is the id of no user, fail
\* with a constraint violation; and a users.update / posts.update that fails
\* with a constraint violation leaves every row of both tables as it was,
\* the targeted row's updatedAt included.
C9_FailedUpdateChangesNothing ==
    /\ (/\ last.op = "users.update"
        /\ \E u \in last.users, o \in last.users :
              /\ u.id = last.input.id
              /\ o.id # u.id
              /\ o.email = last.input.data.email)
       => last.err \in ConstraintViolations
    /\ (/\ last.op = "posts.update"
        /\ last.input.id \in Ids(last.posts)
        /\ last.input.data.authorId # undefined
        /\ last.input.data.authorId \notin Ids(last.users)
        /\ last.err # BadRequest)
       => last.err \in ConstraintViolations
    /\ (/\ last.op \in {"users.update", "posts.update"}
        /\ last.err \in ConstraintViolations)
       => users = last.users /\ posts = last.posts

\* A posts.update that fails on the foreign key at a clock reading other than
\* the one in the targeted row's updatedAt.
C9_Witness ==
    /\ last.op = "posts.update"
    /\ last.err = PostsAuthorFk
    /\ \E p \in Targeted : p.updatedAt # newDate(clock)

\* The id and createdAt of every row of a table.
Identity(rows) == {[id |-> r.id, createdAt |-> r.createdAt] : r \in rows}

\* C10: through the RPC procedures the id and createdAt of a row never change
\* and are server-generated: users.create / posts.create write the generated
\* id and the store's now() whatever id, createdAt or updatedAt the caller
\* supplied, and users.update / posts.update keep id and createdAt and write
\* the call's clock reading to updatedAt whatever the caller supplied.
C10_ServerGeneratedIdentity ==
    /\ last.op \in {"users.create", "posts.create"}
       => LET new == (users \ last.users) \cup (posts \ last.posts) IN
          /\ Identity(last.users) \subseteq Identity(users)
          /\ Identity(last.posts) \subseteq Identity(posts)
          /\ \A r \in new :
                /\ r.id = last.genId
                /\ r.createdAt = defaultNow(clock)
                /\ r.updatedAt = defaultNow(clock)
          /\ Succeeded => new # {}
    /\ last.op \in {"users.update", "posts.update"}
       => /\ Identity(users) = Identity(last.users)
          /\ Identity(posts) = Identity(last.posts)
          /\ \A r \in last.result :
                /\ r.id = last.input.id
                /\ r.updatedAt = newDate(clock)
    /\ last.op \in {"users.delete", "posts.delete"}
       => /\ users \subseteq last.users
          /\ posts \subseteq last.posts

\* A users.update that succeeds although the caller supplied another id and
\* dates other than the row's.
C10_Witness ==
    /\ last.op = "users.update"
    /\ Succeeded
    /\ last.result # {}
    /\ last.input.data.id \notin {undefined, last.input.id}
    /\ \A r \in last.result :
          /\ last.input.data.createdAt \notin {noDate, r.createdAt}
          /\ last.input.data.updatedAt \notin {noDate, r.updatedAt}

\* The input of the call fails the input contract its procedure declares.
FailsContract ==
    \/ /\ last.op = "users.create"
       /\ undefined \in {last.input.name, last.input.email}
    \/ /\ last.op = "posts.create"
       /\ undefined \in {last.input.title, last.input.content,
                         last.input.authorId}
    \/ /\ last.op \in {"users.update", "users.delete", "users.getById",
                       "users.getUserWithPosts", "posts.update",
                       "posts.delete", "posts.getById"}
       /\ last.input.id = undefined
    \/ /\ last.op = "posts.update"
       /\ "" \in {last.input.data.title, last.input.data.content,
                  last.input.data.authorId}
    \/ /\ last.op = "posts.getByAuthor"
       /\ last.input.authorId = undefined

\* C11: a call of an RPC procedure whose input fails the procedure's input
\* contract is rejected with the validation error, returns nothing and leaves
\* both tables as they were (no repository method ran: no store error is
\* raised in its place); and a call rejected with the validation error never
\* changes a table.
C11_InvalidInputRejected ==
    /\ FailsContract => last.err = BadRequest
    /\ (last.op # "idle" /\ last.err = BadRequest)
       => /\ last.result = {}
          /\ users = last.users
          /\ posts = last.posts

\* A posts.update of an existing post rejected for its empty title.
C11_Witness ==
    /\ last.op = "posts.update"
    /\ last.err = BadRequest
    /\ last.input.id \in Ids(last.posts)
    /\ last.input.data.title = ""
    /\ \E p \in last.posts : p.id = last.input.id /\ p.title # ""

\* The strings of Emails that are email-shaped (z.string().email(), which
\* the form schema createUserSchema applies and the router's schema does not).
EmailShaped == {"ada@example.com"}

\* C12 as stated: users.create, and users.update with a patch that contains
\* email, reject an email that is not email-shaped, so that no User row with
\* such an email is ever persisted through the RPC procedures.
C12_OnlyEmailShapedPersisted ==
    /\ \A u \in users : u.email \in EmailShaped
    /\ (/\ last.op = "users.create"
        /\ last.input.email \notin EmailShaped)
       => last.err = BadRequest
    /\ (/\ last.op = "users.update"
        /\ last.input.data.email \notin EmailShaped \cup {undefined})
       => last.err = BadRequest

\* C13 as stated: through the RPC procedures no persisted User has an empty
\* name and no persisted Post an empty title or content, users.create,
\* users.update, posts.create and posts.update each rejecting the empty
\* string for these fields.
C13_NoEmptyText ==
    /\ \A u \in users : u.name # ""
    /\ \A p \in posts : p.title # "" /\ p.content # ""
    /\ (last.op = "users.create" /\ last.input.name = "")
       => last.err = BadRequest
    /\ (last.op = "users.update" /\ last.input.data.name = "")
       => last.err = BadRequest
    /\ (last.op = "posts.create" /\ "" \in {last.input.title, last.input.content})
       => last.err = BadRequest
    /\ (/\ last.op = "posts.update"
        /\ "" \in {last.input.data.title, last.input.data.content})
       => last.err = BadRequest

\* C14: users.delete / posts.delete with an id that matches no row raise no
\* error, return { success: true } and leave both tables as they were; and
\* after any successful delete, the same delete again succeeds and changes
\* nothing.
C14_DeleteOfMissingRow ==
    /\ (/\ last.op = "users.delete"
        /\ last.input.id \notin Ids(last.users) \cup {undefined})
       => /\ Succeeded
          /\ last.result = Success
          /\ users = last.users
          /\ posts = last.posts
    /\ (/\ last.op = "posts.delete"
        /\ last.input.id \notin Ids(last.posts) \cup {undefined})
       => /\ Succeeded
          /\ last.result = Success
          /\ users = last.users
          /\ posts = last.posts
    /\ (last.op = "users.delete" /\ Succeeded)
       => users_delete(users, posts, last.input) =
              Outcome(NoError, users, posts, Success)
    /\ (last.op = "posts.delete" /\ Succeeded)
       => posts_delete(users, posts, last.input) =
              Outcome(NoError, users, posts, Success)

\* A users.delete of an id no user has, in a store with users and posts.
C14_Witness ==
    /\ last.op = "users.delete"
    /\ last.input.id \notin Ids(last.users) \cup {undefined}
    /\ last.users # {}
    /\ last.posts # {}

QueryProcedures ==
    {"users.list", "users.getById", "users.getUserWithPosts", "posts.list",
     "posts.getById", "posts.getByAuthor", "posts.getPostsWithAuthors",
     "posts.getCount"}

\* C15: a call of a query procedure (users.list, users.getById,
\* users.getUserWithPosts, posts.list, posts.getById, posts.getByAuthor,
\* posts.getPostsWithAuthors, posts.getCount) leaves the users and the posts
\* table as they were, whatever its input and the state of the store.
C15_QueriesChangeNothing ==
    last.op \in QueryProcedures => users = last.users /\ posts = last.posts

\* A query that returned both posts of a store with two users.
C15_Witness ==
    /\ last.op = "posts.getPostsWithAuthors"
    /\ Succeeded
    /\ Len(last.result) = 2
    /\ Cardinality(users) = 2

\* The entries of a returned sequence are newest first.
NewestFirst(r) ==
    \A i \in DOMAIN r, j \in DOMAIN r :
        j = i + 1 => r[i].createdAt >= r[j].createdAt

\* The post part of an entry of getPostsWithAuthors / getPostWithAuthor.
PostOf(e) ==
    [id |-> e.id, title |-> e.title, content |-> e.content,
     authorId |-> e.authorId, createdAt |-> e.createdAt,
     updatedAt |-> e.updatedAt]

\* C16: PostRepository.getPostsWithAuthors returns every post of the store
\* exactly once, and any two adjacent entries a, b of the result have
\* a.createdAt >= b.createdAt.
C16_PostsWithAuthorsNewestFirst ==
    last.op = "PostRepository.getPostsWithAuthors"
    => LET r == last.result IN
       /\ Len(r) = Cardinality(posts)
       /\ {PostOf(r[i]) : i \in DOMAIN r} = {PostFromDriver(p) : p \in posts}
       /\ \A i \in DOMAIN r, j \in DOMAIN r : r[i].id = r[j].id => i = j
       /\ NewestFirst(r)

\* Two posts of different authors returned, one newer than the other.
C16_Witness ==
    /\ last.op = "PostRepository.getPostsWithAuthors"
    /\ Len(last.result) = 2
    /\ last.result[1].createdAt > last.result[2].createdAt
    /\ last.result[1].authorId # last.result[2].authorId

\* The entry's nested author is present and is the user its authorId names.
HasItsAuthor(e) ==
    /\ e.author = {UserFromDriver(u) : u \in {r \in users : r.id = e.authorId}}
    /\ Cardinality(e.author) = 1

\* C17: every entry PostRepository.getPostsWithAuthors returns, and the entry
\* PostRepository.getPostWithAuthor returns when it returns one, carries a
\* nested author that is not absent and is the User row whose id equals the
\* entry's authorId.
C17_AuthorAlwaysNested ==
    /\ last.op = "PostRepository.getPostsWithAuthors"
       => \A i \in DOMAIN last.result : HasItsAuthor(last.result[i])
    /\ last.op = "PostRepository.getPostWithAuthor"
       => \A e \in last.result : HasItsAuthor(e)

\* Two posts returned with two different authors.
C17_Witness ==
    /\ last.op = "PostRepository.getPostsWithAuthors"
    /\ Len(last.result) = 2
    /\ last.result[1].author # last.result[2].author
    /\ last.result[1].author # {}

\* The sequence r holds exactly the rows, each once, as read back.
HoldsExactly(r, rows) ==
    /\ Len(r) = Cardinality(rows)
    /\ {r[i] : i \in DOMAIN r} = {PostFromDriver(p) : p \in rows}

\* C18: PostRepository.findByAuthor(a) returns exactly the posts whose
\* authorId is a, each once, newest first (createdAt descending), and
\* PostRepository.findAll returns all posts, each once, in that order.
C18_FindByAuthorAndFindAll ==
    /\ last.op = "PostRepository.findByAuthor"
       => /\ HoldsExactly(last.result,
                          {p \in posts : p.authorId = last.input.authorId})
          /\ NewestFirst(last.result)
    /\ last.op = "PostRepository.findAll"
       => /\ HoldsExactly(last.result, posts)
          /\ NewestFirst(last.result)

\* findByAuthor returned one of two posts, the other being newer and of
\* another author.
C18_Witness ==
    /\ last.op = "PostRepository.findByAuthor"
    /\ Len(last.result) = 1
    /\ \E p \in posts :
          /\ p.authorId # last.input.authorId
          /\ mapFromDriverValue(p.createdAt) > last.result[1].createdAt

\* The user part of the entry getUserWithPosts returns.
UserOf(e) ==
    [id |-> e.id, name |-> e.name, email |-> e.email,
     createdAt |-> e.createdAt, updatedAt |-> e.updatedAt]

\* C19: UserRepository.getUserWithPosts(id) returns undefined when no user
\* has that id, and otherwise that user with a nested sequence holding
\* exactly the posts whose authorId is id, each once, newest first.
C19_UserWithPosts ==
    last.op = "UserRepository.getUserWithPosts"
    => IF last.input.id \notin Ids(users)
       THEN last.result = {}
       ELSE \E e \in last.result :
              /\ last.result = {e}
              /\ e.id = last.input.id
              /\ UserOf(e) \in {UserFromDriver(u) : u \in users}
              /\ HoldsExactly(e.posts,
                              {p \in posts : p.authorId = last.input.id})
              /\ NewestFirst(e.posts)

\* A user returned with two posts, one newer than the other.
C19_Witness ==
    /\ last.op = "UserRepository.getUserWithPosts"
    /\ Cardinality(users) = 2
    /\ \E e \in last.result :
          /\ Len(e.posts) = 2
          /\ e.posts[1].createdAt > e.posts[2].createdAt

\* C20: in every state reached through the RPC procedures (post creates,
\* post deletes and cascading user deletes among them) posts.getCount returns
\* { count: n } with n the number of Post rows in the store, which is the
\* length of every sequence posts.list can return in that state.
C20_CountIsNumberOfPosts ==
    /\ last.op = "posts.getCount"
       => /\ Succeeded
          /\ last.result = [count |-> Cardinality(posts)]
          /\ \A l \in posts_list(users, posts) :
                Len(l.result) = last.result.count
    /\ last.op = "posts.list"
       => \A c \in posts_getCount(users, posts) :
             c.result.count = Len(last.result)

\* A count of two posts of one author, in a store with two users.
C20_Witness ==
    /\ last.op = "posts.getCount"
    /\ last.result.count = 2
    /\ Cardinality(users) = 2
    /\ \A p \in posts, q \in posts : p.authorId = q.authorId

AlphabetChars == {alphabet[i] : i \in DOMAIN alphabet}

C23_AlphabetOf58 ==
    /\ Len(alphabet) = 58
    /\ Cardinality(AlphabetChars) = Len(alphabet)
    /\ AlphabetChars \cap {"0", "O", "I", "l", "1"} = {}
    /\ \A i \in DOMAIN gen.id : gen.id[i] \notin {"0", "O", "I", "l", "1"}

\* C24: create followed by findById(result.id) is two calls, and calls of
\* other callers can run between them: the findById returns what is stored
\* under that id when it runs - nothing when the row was deleted meanwhile,
\* the updated row when it was updated meanwhile - and not the row create
\* returned.
C24_FindByIdSeesInterveningWrites ==
    (client.pc = "done" /\ last.op = "UserRepository.findById")
    => /\ client.found = last.result
       /\ \A r \in client.row :
             /\ last.input.id = r.id
             /\ client.found =
                   {UserFromDriver(u) : u \in {x \in users : x.id = r.id}}

\* The findById returned a row other than the one create returned.
C24_Witness ==
    /\ client.pc = "done"
    /\ client.found # {}
    /\ client.found # client.row

\* The other outcome: the findById returned nothing.
C24_WitnessAbsent ==
    /\ client.pc = "done"
    /\ client.row # {}
    /\ client.found = {}

\* C25 as stated: hello returns "Hello, <name>!" when input.name is supplied
\* and "Hello, world!" when it is not, with method input.method ("GET" when
\* omitted); updateHello returns "Hello, <name>! (Updated)" when input.name
\* is supplied and "Hello, world! (Updated)" when it is not, with method
\* "PUT".
C25_HelloGreetsSuppliedName ==
    /\ (last.op = "hello.hello" /\ Succeeded)
       => /\ last.result.message =
                IF last.input.name # undefined
                THEN "Hello, " \o last.input.name \o "!"
                ELSE "Hello, world!"
          /\ last.result.method =
                IF last.input.method = undefined THEN "GET"
                ELSE last.input.method
    /\ last.op = "hello.updateHello"
       => /\ Succeeded
          /\ last.result.message =
                IF last.input.name # undefined
                THEN "Hello, " \o last.input.name \o "! (Updated)"
                ELSE "Hello, world! (Updated)"
          /\ last.result.method = "PUT"

\* C25 amended: hello returns "Hello, <name>!" when input.name is a non-empty
\* string and "Hello, world!" when it is omitted or empty, with method
\* input.method ("GET" when omitted); updateHello returns
\* "Hello, <name>! (Updated)" when input.name is a non-empty string and
\* "Hello, world! (Updated)" when it is omitted or empty, with method "PUT".
C25_HelloGreetsNonEmptyName ==
    /\ (last.op = "hello.hello" /\ last.input.method \in {undefined, "GET", "PUT"})
       => /\ Succeeded
          /\ last.result.message =
                IF last.input.name \notin {undefined, ""}
                THEN "Hello, " \o last.input.name \o "!"
                ELSE "Hello, world!"
          /\ last.result.method =
                IF last.input.method = undefined THEN "GET"
                ELSE last.input.method
    /\ last.op = "hello.updateHello"
       => /\ Succeeded
          /\ last.result.message =
                IF last.input.name \notin {undefined, ""}
                THEN "Hello, " \o last.input.name \o "! (Updated)"
                ELSE "Hello, world! (Updated)"
          /\ last.result.method = "PUT"

\* hello called with the empty name and no method.
C25_Witness ==
    /\ last.op = "hello.hello"
    /\ last.input.name = ""
    /\ last.input.method = undefined
    /\ last.result = [message |-> "Hello, world!", method |-> "GET"]

\* A serial execution of the calls in the given order from the base store:
\* each call is made and its statement executes at clock reading tau[c], the
\* next call is made after the previous one returned.
RECURSIVE SerialRun(_, _, _, _)
SerialRun(order, tau, us, ps) ==
    IF order = <<>> THEN [users |-> us, posts |-> ps, outs |-> <<>>]
    ELSE LET c    == Head(order)
             out  == Statement(calls.slot[c], us, ps, tau[c], tau[c])
             rest == SerialRun(Tail(order), tau, out.users, out.posts)
         IN  [users |-> rest.users, posts |-> rest.posts,
              outs  |-> <<out>> \o rest.outs]

Done == {c \in CallIds : calls.slot[c].pc = "done"}

Orders(S) ==
    {o \in [1..Cardinality(S) -> S] : \A i, j \in DOMAIN o : i # j => o[i] # o[j]}

SerialTimes(o) ==
    {tau \in [CallIds -> calls.base.clock..MaxClock] :
        \A i, j \in DOMAIN o : i < j => tau[o[i]] <= tau[o[j]]}

\* C26: when the concurrently running repository calls have all returned,
\* the store and every call's result are those of some serial execution of
\* the same calls.
C26_SerialEquivalence ==
    ConcSettled =>
        \E o \in Orders(Done) : \E tau \in SerialTimes(o) :
            LET run == SerialRun(o, tau, calls.base.users, calls.base.posts) IN
            /\ run.users = users
            /\ run.posts = posts
            /\ \A i \in DOMAIN o :
                  /\ run.outs[i].err = calls.slot[o[i]].out.err
                  /\ run.outs[i].result = calls.slot[o[i]].out.result

\* The patch names the field.
Named(data, f) ==
    IF f \in {"createdAt", "updatedAt"} THEN data[f] # noDate
    ELSE data[f] # undefined

InsertedId == IF last.input.id = undefined THEN last.genId ELSE last.input.id

\* C28: no two rows of users and no two rows of posts have the same id, and
\* a UserRepository.create / PostRepository.create whose id, generated or
\* supplied, is the id of an existing row of its table fails and leaves both
\* tables, that row included, as they were.
C28_IdsUnique ==
    /\ \A u, v \in users : u.id = v.id => u = v
    /\ \A p, q \in posts : p.id = q.id => p = q
    /\ (last.op = "UserRepository.create" /\ InsertedId \in Ids(last.users))
       => ~Succeeded /\ users = last.users /\ posts = last.posts
    /\ (last.op = "PostRepository.create" /\ InsertedId \in Ids(last.posts))
       => ~Succeeded /\ users = last.users /\ posts = last.posts

\* A create whose generated id is taken by a row with another name and email
\* fails on the primary key.
C28_Witness ==
    /\ last.op = "UserRepository.create"
    /\ last.input.id = undefined
    /\ last.err = UsersPkey
    /\ \E u \in users :
          /\ u.id = last.genId
          /\ u.email # last.input.email
          /\ u.name # last.input.name

\* What the server answers to the query of a key.
Results(k, us, ps) == {o.result : o \in Query(k, us, ps)}

HookMutations ==
    {"users.create", "users.update", "users.delete",
     "posts.create", "posts.update", "posts.delete"}

\* C29: after a successful mutation through a mutation hook, no cached query
\* whose server result the mutation changed is still fresh.
C29_ChangedResultsInvalidated ==
    (last.op \in HookMutations /\ Succeeded)
    => \A k \in HookKeys :
          cache[k].status = "fresh"
          => Results(k, last.users, last.posts) = Results(k, users, posts)

====
